---- MODULE Spec2Model ----
(***************************************************************************)
(* The hierarchical command registry of cryptic (src/cryptic/cmds.py,      *)
(* class CmdTree) and its entry point (src/cryptic/__main__.py).           *)
(*                                                                         *)
(* A parser (argparse.ArgumentParser) is a node id; the root parser is 0.  *)
(* The ordered name->parser map of a parser's sub-parsers action           *)
(* (_SubParsersAction.choices) is a sequence of [name, parser] entries in  *)
(* insertion order; a name and its aliases are keys of the same map.       *)
(*                                                                         *)
(* Spec is the whole program: register calls, then one run().  SpecHist    *)
(* is its registration phase with the history of the first successful      *)
(* call; SpecFind is its registration phase on larger trees, where two     *)
(* parsers of the same depth can hold the same key.                        *)
(***************************************************************************)
EXTENDS Integers, Sequences, FiniteSets, TLC

\* ---------------------------------------------------------------- bounds
MaxNodes == 3        \* parsers created below the root
MaxLen == 3          \* segments of a command path / of an argument vector
MaxAliases == 1      \* aliases given to one register call
HistNodes == 3       \* the same two bounds under SpecHist
HistLen == 2
FindNodes == 4       \* the same two bounds under SpecFind
FindLen == 2

Names == {"a", "b", "c"}

\* ------------------------------------------------------------- constants
None == -1           \* Python's None, where a parser or an int is expected
root == 0            \* CmdTree.root
prog == "prog"       \* root.prog, prepended to the path at cmds.py:155
NoFunc == 0          \* func = None of _add_child; user functions are 1, 2, ...

HistPaths == UNION {[1..k -> Names] : k \in 1..HistLen}
FindPaths == UNION {[1..k -> Names] : k \in 1..FindLen}
Paths == UNION {[1..k -> Names] : k \in 1..MaxLen}
Argvs == UNION {[1..k -> Names] : k \in 0..MaxLen}
AliasLists == UNION {[1..k -> Names] : k \in 0..MaxAliases}

\* the two kinds of value stored under the 'func' default of a parser
HelpOf(p) == [kind |-> "print_help", parser |-> p, name |-> NoFunc]
User(f) == [kind |-> "user", parser |-> None, name |-> f]

VARIABLES
    choices,      \* parser -> its ordered map of sub-parser names and aliases
    defaults,     \* parser -> the value of its 'func' default
    subparsers,   \* the parsers that own a sub-parsers action
    op,           \* the last call: "init", "register" or "run"
    arg,          \* its cmd_fullname (register) or its command segments (run)
    arg_func,     \* the cmd_func of a register call
    outcome,      \* how the call ended: "ok" or the error it raised
    node,         \* the parser register returned, or the one parse_args ended at
    first,        \* history: the first register call that succeeded
    calls,        \* the 'func' values run() invoked, in order
    returned,     \* what the invoked function returned
    exit_status   \* the status sys.exit(main()) gave the process

vars == <<choices, defaults, subparsers, op, arg, arg_func, outcome, node, first,
          calls, returned, exit_status>>

Tree == [choices |-> choices, defaults |-> defaults, subparsers |-> subparsers]

NodeCount(t) == Cardinality(DOMAIN t.choices) - 1

\* ------------------------------------------------------------- the tree
Keys(t, p) == {t.choices[p][i].name : i \in 1..Len(t.choices[p])}

\* CmdTree._get_subparser_action: the parser's sub-parsers action, if any
_get_subparser_action(t, p) == IF p \in t.subparsers THEN p ELSE None

\* CmdTree._get_subparsers: the items of the action's choices, in order
_get_subparsers(t, p) ==
    IF _get_subparser_action(t, p) # None THEN t.choices[p] ELSE <<>>

\* find_loop taking the sub-parsers of a parser before the parsers already queued
RECURSIVE find_loop_depth_first(_, _, _)
find_loop_depth_first(t, subparser_deque, cmd_name) ==
    IF subparser_deque = <<>> THEN None
    ELSE LET head == Head(subparser_deque) IN
         IF head.name = cmd_name THEN head.parser
         ELSE find_loop_depth_first(t, _get_subparsers(t, head.parser) \o Tail(subparser_deque),
                                    cmd_name)

\* the while loop of CmdTree._find_cmd over the deque
RECURSIVE find_loop(_, _, _)
find_loop(t, subparser_deque, cmd_name) ==
    IF subparser_deque = <<>> THEN None
    ELSE LET head == Head(subparser_deque) IN
         IF head.name = cmd_name THEN head.parser
         ELSE find_loop(t, Tail(subparser_deque) \o _get_subparsers(t, head.parser),
                        cmd_name)

\* CmdTree._find_cmd with root = None
_find_cmd(t, cmd_name) == find_loop(t, _get_subparsers(t, root), cmd_name)

\* the inner for loop of _find_cmd_chain: the first child whose key matches
RECURSIVE find_child(_, _, _)
find_child(items, next_name, i) ==
    IF i > Len(items) THEN None
    ELSE IF items[i].name = next_name THEN items[i].parser
    ELSE find_child(items, next_name, i + 1)

\* chain_loop going on to the next segment after a segment that matched nothing
RECURSIVE chain_loop_skipping(_, _, _, _, _)
chain_loop_skipping(t, cmd_fullname, root_parser, chain, k) ==
    IF k > Len(cmd_fullname) THEN chain
    ELSE LET child == find_child(_get_subparsers(t, root_parser), cmd_fullname[k], 1) IN
         IF child = None
         THEN chain_loop_skipping(t, cmd_fullname, root_parser, chain, k + 1)
         ELSE chain_loop_skipping(t, cmd_fullname, child, Append(chain, child), k + 1)

\* the outer for loop of _find_cmd_chain, from segment k on
RECURSIVE chain_loop(_, _, _, _, _)
chain_loop(t, cmd_fullname, root_parser, chain, k) ==
    IF k > Len(cmd_fullname) THEN chain
    ELSE LET child == find_child(_get_subparsers(t, root_parser), cmd_fullname[k], 1) IN
         IF child = None THEN chain
         ELSE chain_loop(t, cmd_fullname, child, Append(chain, child), k + 1)

\* CmdTree._find_cmd_chain
_find_cmd_chain(t, cmd_fullname) ==
    LET root_parser == _find_cmd(t, cmd_fullname[1]) IN
    IF root_parser = None THEN [i \in 1..Len(cmd_fullname) |-> None]
    ELSE IF Len(cmd_fullname) = 1 THEN <<root_parser>>
    ELSE LET chain == chain_loop(t, cmd_fullname, root_parser, <<root_parser>>, 2) IN
         chain \o [i \in 1..(Len(cmd_fullname) - Len(chain)) |-> None]

\* dict assignment  name_parser_map[key] = parser  on the ordered map
set_item(items, key, parser) ==
    IF \E i \in 1..Len(items) : items[i].name = key
    THEN [i \in 1..Len(items) |->
            IF items[i].name = key THEN [name |-> key, parser |-> parser] ELSE items[i]]
    ELSE Append(items, [name |-> key, parser |-> parser])

RECURSIVE set_items(_, _, _)
set_items(items, keys, parser) ==
    IF keys = <<>> THEN items
    ELSE set_items(set_item(items, Head(keys), parser), Tail(keys), parser)

\* add_parser refusing a taken name but storing a taken alias over its holder
add_parser_aliases_unchecked(t, p, child_name, aliases) ==
    LET child == Cardinality(DOMAIN t.choices) IN
    IF child_name \in Keys(t, p)
    THEN [tree |-> t, status |-> "DuplicateName", node |-> None]
    ELSE [tree |-> [t EXCEPT !.choices =
                       [@ EXCEPT ![p] = set_items(@, <<child_name>> \o aliases, child)]
                       @@ (child :> <<>>)],
          status |-> "ok", node |-> child]

\* add_parser storing the new parser under its name before it looks at the aliases
add_parser_name_stored_first(t, p, child_name, aliases) ==
    LET child == Cardinality(DOMAIN t.choices)
        named == [t EXCEPT !.choices =
                     [@ EXCEPT ![p] = set_item(@, child_name, child)] @@ (child :> <<>>)]
    IN  IF child_name \in Keys(t, p)
        THEN [tree |-> t, status |-> "DuplicateName", node |-> None]
        ELSE IF \E i \in 1..Len(aliases) : aliases[i] \in Keys(t, p)
        THEN [tree |-> named, status |-> "DuplicateName", node |-> None]
        ELSE [tree |-> [named EXCEPT !.choices[p] = set_items(@, aliases, child)],
              status |-> "ok", node |-> child]

\* subaction.add_parser(child_name, aliases=aliases) as called at cmds.py:140:
\* a name or an alias that is already a key of the map is refused before
\* anything is stored; otherwise the new parser is stored under the name and
\* then under each alias.
add_parser(t, p, child_name, aliases) ==
    LET child == Cardinality(DOMAIN t.choices) IN
    IF child_name \in Keys(t, p) \/ \E i \in 1..Len(aliases) : aliases[i] \in Keys(t, p)
    THEN [tree |-> t, status |-> "DuplicateName", node |-> None]
    ELSE [tree |-> [t EXCEPT !.choices =
                       [@ EXCEPT ![p] = set_items(@, <<child_name>> \o aliases, child)]
                       @@ (child :> <<>>)],
          status |-> "ok", node |-> child]

\* _add_child whose default func prints the help of the root, not of the child
_add_child_root_help(t, parent, child_name, func, aliases) ==
    LET t1 == IF _get_subparser_action(t, parent) = None
              THEN [t EXCEPT !.subparsers = @ \cup {parent}]
              ELSE t
        r == add_parser(t1, parent, child_name, aliases)
        cmd_func == IF func = NoFunc THEN HelpOf(root) ELSE User(func)
    IN  IF r.status # "ok" THEN r
        ELSE [r EXCEPT !.tree.defaults = @ @@ (r.node :> cmd_func)]

\* CmdTree._add_child
_add_child(t, parent, child_name, func, aliases) ==
    LET t1 == IF _get_subparser_action(t, parent) = None
              THEN [t EXCEPT !.subparsers = @ \cup {parent}]
              ELSE t
        r == add_parser(t1, parent, child_name, aliases)
        cmd_func == IF func = NoFunc THEN HelpOf(r.node) ELSE User(func)
    IN  IF r.status # "ok" THEN r
        ELSE [r EXCEPT !.tree.defaults = @ @@ (r.node :> cmd_func)]

\* register_loop leaving out the last pair of the chain
RECURSIVE register_loop_short(_, _, _, _, _, _)
register_loop_short(t, chain, cmd_fullname, j, cmd_func, aliases) ==
    LET leaf_name == cmd_fullname[Len(cmd_fullname)] IN
    IF j > Len(chain) - 1 THEN [tree |-> t, status |-> "UnresolvedLeaf", node |-> None]
    ELSE IF chain[j] = None
    THEN IF cmd_fullname[j] = leaf_name
         THEN _add_child(t, chain[j - 1], leaf_name, cmd_func, aliases)
         ELSE LET r == _add_child(t, chain[j - 1], cmd_fullname[j], NoFunc, <<>>) IN
              IF r.status # "ok" THEN r
              ELSE register_loop_short(r.tree, [chain EXCEPT ![j] = r.node], cmd_fullname,
                                       j + 1, cmd_func, aliases)
    ELSE register_loop_short(t, chain, cmd_fullname, j + 1, cmd_func, aliases)

\* the pairwise loop of CmdTree.register_cmd, from the pair (j-1, j) on
RECURSIVE register_loop(_, _, _, _, _, _)
register_loop(t, chain, cmd_fullname, j, cmd_func, aliases) ==
    LET leaf_name == cmd_fullname[Len(cmd_fullname)] IN
    IF j > Len(chain) THEN [tree |-> t, status |-> "UnresolvedLeaf", node |-> None]
    ELSE IF chain[j] = None
    THEN IF cmd_fullname[j] = leaf_name
         THEN _add_child(t, chain[j - 1], leaf_name, cmd_func, aliases)
         ELSE LET r == _add_child(t, chain[j - 1], cmd_fullname[j], NoFunc, <<>>) IN
              IF r.status # "ok" THEN r
              ELSE register_loop(r.tree, [chain EXCEPT ![j] = r.node], cmd_fullname,
                                 j + 1, cmd_func, aliases)
    ELSE register_loop(t, chain, cmd_fullname, j + 1, cmd_func, aliases)

\* CmdTree.register_cmd: the tree it leaves, how it ended, what it returned
register_cmd(t, cmd_fullname, cmd_func, aliases) ==
    LET chain == _find_cmd_chain(t, cmd_fullname) IN
    IF \A i \in 1..Len(chain) : chain[i] # None
    THEN [tree |-> t, status |-> "AlreadyRegistered", node |-> None]
    ELSE IF chain[1] = None
    THEN register_loop(t, <<root>> \o chain, <<prog>> \o cmd_fullname, 2, cmd_func, aliases)
    ELSE register_loop(t, chain, cmd_fullname, 2, cmd_func, aliases)

\* ------------------------------------------------------------- dispatch
\* CmdTree.parse_args, i.e. root.parse_args(): each segment selects the
\* sub-parser stored under it in the current parser's map; a segment that
\* selects nothing is the parser's own error (exit status 2).
RECURSIVE parse_args(_, _, _)
parse_args(t, p, arg_strings) ==
    IF arg_strings = <<>> THEN p
    ELSE LET child == find_child(_get_subparsers(t, p), Head(arg_strings), 1) IN
         IF child = None THEN None
         ELSE parse_args(t, child, Tail(arg_strings))

RetVals == {None, 0, 1}

\* CmdTree.run: calls args.func(args) and has no return statement
run(func_result) == None

\* main: return commands.run()
main(func_result) == run(func_result)

\* sys.exit(value): None is status 0, an int is that status
sys_exit(value) == IF value = None THEN 0 ELSE value

\* ------------------------------------------------------------- actions
\* CmdTree.__init__: the root gets its help default; the test
\* 'not self._get_subparsers(self.root)' is made on a generator object, which
\* is always true, so the root gets no sub-parsers action here.
NoCall == [path |-> <<>>, leaf |-> None, func |-> NoFunc]

Init ==
    /\ choices = (root :> <<>>)
    /\ defaults = (root :> HelpOf(root))
    /\ subparsers = {}
    /\ op = "init"
    /\ arg = <<>>
    /\ arg_func = NoFunc
    /\ outcome = "-"
    /\ node = None
    /\ first = NoCall
    /\ calls = <<>>
    /\ returned = None
    /\ exit_status = None

\* The registration phase is over once a call has raised (nothing in the
\* program catches it: the decorators run at import) or once run() was called
\* (main hands its result to sys.exit).
Running == op # "run" /\ outcome \in {"-", "ok"}

\* Every decorated function is a function object of its own: the k-th
\* successful registration was given function k, the next call gives k + 1.
next_func == Cardinality({p \in DOMAIN defaults : defaults[p].kind = "user"}) + 1

\* One call of register_cmd, as the decorator of CmdTree.register makes it
Register(cmd_fullname, cmd_func, aliases) ==
    LET r == register_cmd(Tree, cmd_fullname, cmd_func, aliases) IN
    /\ Running
    /\ choices' = r.tree.choices
    /\ defaults' = r.tree.defaults
    /\ subparsers' = r.tree.subparsers
    /\ op' = "register"
    /\ arg' = cmd_fullname
    /\ arg_func' = cmd_func
    /\ outcome' = r.status
    /\ node' = r.node
    /\ UNCHANGED <<calls, returned, exit_status>>

\* sys.exit(main()) on the command segments args
Run(args) ==
    LET p == parse_args(Tree, root, args) IN
    /\ Running
    /\ op' = "run"
    /\ arg' = args
    /\ arg_func' = NoFunc
    /\ node' = p
    /\ IF p = None
       THEN /\ outcome' = "ParseError"
            /\ calls' = <<>>
            /\ returned' = None
            /\ exit_status' = 2
       ELSE \E func_result \in (IF defaults[p].kind = "user" THEN RetVals ELSE {None}) :
            /\ outcome' = "ok"
            /\ calls' = <<defaults[p]>>
            /\ returned' = func_result
            /\ exit_status' = sys_exit(main(func_result))
    /\ UNCHANGED <<choices, defaults, subparsers, first>>

\* the history variable keeps the first successful call
Remember ==
    first' = IF first = NoCall /\ outcome' = "ok"
             THEN [path |-> arg', leaf |-> node', func |-> arg_func']
             ELSE first

RegisterStep ==
    \E cmd_fullname \in Paths, aliases \in AliasLists :
        /\ Register(cmd_fullname, next_func, aliases)
        /\ NodeCount(Tree') <= MaxNodes
        /\ first' = first

RunStep == \E args \in Argvs : Run(args)

Next == RegisterStep \/ RunStep

Spec == Init /\ [][Next]_vars

\* The registration phase alone, with the history of the first call
HistRegisterStep ==
    \E cmd_fullname \in HistPaths, aliases \in AliasLists :
        /\ Register(cmd_fullname, next_func, aliases)
        /\ NodeCount(Tree') <= HistNodes
        /\ Remember

NextHist == HistRegisterStep

SpecHist == Init /\ [][NextHist]_vars

\* The registration phase alone, on larger trees and shorter paths
FindRegisterStep ==
    \E cmd_fullname \in FindPaths, aliases \in AliasLists :
        /\ Register(cmd_fullname, next_func, aliases)
        /\ NodeCount(Tree') <= FindNodes
        /\ first' = first

NextFind == FindRegisterStep

SpecFind == Init /\ [][NextFind]_vars

\* =================================================================== claims
Live(chain) == \A i \in 1..Len(chain) : chain[i] # None

\* child is stored in parent's map under key
IsChild(t, parent, key, child) ==
    \E i \in 1..Len(t.choices[parent]) :
        t.choices[parent][i].name = key /\ t.choices[parent][i].parser = child

\* C1: when register(p, A) has succeeded, a register(p, B) made right after it
\* raises AlreadyRegistered and leaves the tree as it was.
C1_SecondRegisterFails ==
    [][(op = "register" /\ outcome = "ok" /\ op' = "register" /\ arg' = arg)
        => (/\ outcome' = "AlreadyRegistered"
            /\ choices' = choices /\ defaults' = defaults /\ subparsers' = subparsers)]_vars

\* C2: after a successful register(p, A) the resolver gives for p a chain of
\* Len(p) live parsers, each one the child of the one before it under its segment.
C2_RegisteredPathResolves ==
    (op = "register" /\ outcome = "ok") =>
        LET chain == _find_cmd_chain(Tree, arg) IN
        /\ Len(chain) = Len(arg)
        /\ Live(chain)
        /\ \A i \in 2..Len(chain) : IsChild(Tree, chain[i - 1], arg[i], chain[i])

\* C3: registering a path that resolves to a parser whose func is still the
\* default help succeeds, creates and removes no parser, keeps every map, and
\* gives that parser the registered function (register [a,b,c] then [a,b]).
C3_NamespaceBecomesLeaf ==
    [][(/\ op' = "register"
        /\ Live(_find_cmd_chain(Tree, arg'))
        /\ defaults[_find_cmd_chain(Tree, arg')[Len(arg')]].kind = "print_help")
        => (/\ outcome' = "ok"
            /\ choices' = choices
            /\ defaults' = [defaults EXCEPT ![_find_cmd_chain(Tree, arg')[Len(arg')]] =
                                User(arg_func')])]_vars

\* C4: run() invokes the resolved func exactly once and the value it returns
\* is the exit status of the process (None counting as 0).
C4_ExitStatusIsResult ==
    (op = "run" /\ outcome = "ok") =>
        /\ calls = <<defaults[node]>>
        /\ exit_status = IF returned = None THEN 0 ELSE returned

\* C5: once register(p, A) has succeeded, every later register(p, B), whatever
\* calls came in between, raises AlreadyRegistered: p's leaf keeps A and no
\* second parser is created for p.  (p is the path of the first call.)
C5_NeverRegisteredTwice ==
    first # NoCall =>
        /\ defaults[first.leaf] = User(first.func)
        /\ (op = "register" /\ arg = first.path /\ arg_func # first.func)
              => (outcome = "AlreadyRegistered" /\ node = None)

\* C6: run() on the segments of a path that register(p, A) returned a parser
\* for ends at that parser and invokes A.
C6_DispatchReachesLeaf ==
    [][(op = "register" /\ outcome = "ok" /\ op' = "run" /\ arg' = arg)
        => (node' = node /\ calls' = <<User(arg_func)>>)]_vars

\* C7: a register call that would add its leaf under a parser one of whose keys
\* equals a supplied alias raises DuplicateName; no map holds a key twice and
\* every parser created stays in the map of exactly one parent.
C7_DuplicateAliasRefused ==
    /\ \A p \in DOMAIN choices : \A i, j \in 1..Len(choices[p]) :
          choices[p][i].name = choices[p][j].name => i = j
    /\ \A n \in DOMAIN choices \ {root} :
          Cardinality({p \in DOMAIN choices :
                         \E i \in 1..Len(choices[p]) : choices[p][i].parser = n}) = 1
    /\ Running =>
          \A cmd_fullname \in Paths, aliases \in AliasLists :
              LET chain == _find_cmd_chain(Tree, cmd_fullname)
                  n == Len(cmd_fullname)
                  parent == IF n = 1 THEN root ELSE chain[n - 1]
              IN  (/\ chain[n] = None
                   /\ parent # None
                   /\ \E i \in 1..Len(aliases) : aliases[i] \in Keys(Tree, parent))
                  => register_cmd(Tree, cmd_fullname, next_func, aliases).status
                        = "DuplicateName"

C7_Witness == op = "register" /\ outcome = "DuplicateName" /\ Len(arg) = 2

\* C8: every parser has a func, the default one printing the help of that very
\* parser; run() ending at a parser with the default func (the root on empty
\* input, a namespace parser made by register) calls that help and exits 0.
C8_DefaultHelpOfNode ==
    /\ DOMAIN defaults = DOMAIN choices
    /\ \A p \in DOMAIN defaults :
          \/ defaults[p] = HelpOf(p)
          \/ defaults[p].kind = "user" /\ defaults[p].name # NoFunc
    /\ (op = "run" /\ arg = <<>>) => node = root /\ defaults[root] = HelpOf(root)
    /\ (op = "run" /\ node # None /\ defaults[node].kind # "user")
          => (/\ outcome = "ok"
              /\ calls = <<HelpOf(node)>>
              /\ returned = None
              /\ exit_status = 0)

C8_Witness ==
    /\ op = "run" /\ node \notin {None, root}
    /\ defaults[node].kind = "print_help" /\ exit_status = 0

\* the shape of a chain returned for cmd_fullname on the tree t
ChainShape(t, cmd_fullname, chain) ==
    /\ Len(chain) = Len(cmd_fullname)
    /\ \A i \in 1..Len(chain) : chain[i] = None \/ chain[i] \in DOMAIN t.choices \ {root}
    /\ \A i, j \in 1..Len(chain) : (i < j /\ chain[i] = None) => chain[j] = None
    /\ \A i \in 2..Len(chain) :
          /\ chain[i] # None => IsChild(t, chain[i - 1], cmd_fullname[i], chain[i])
          /\ (chain[i] = None /\ chain[i - 1] # None)
                => cmd_fullname[i] \notin Keys(t, chain[i - 1])

\* C9: the resolver returns one entry per segment, live parsers first and None
\* after them; each live entry after the first is held by the entry before it
\* under its segment, and the first None follows a parser with no such key.
C9_ChainIsLongestPrefix ==
    op # "run" =>
        \A cmd_fullname \in Paths :
            ChainShape(Tree, cmd_fullname, _find_cmd_chain(Tree, cmd_fullname))

C9_Witness ==
    /\ op = "register" /\ outcome = "ok"
    /\ \E cmd_fullname \in Paths :
          LET chain == _find_cmd_chain(Tree, cmd_fullname) IN
          Len(chain) = 3 /\ chain[2] # None /\ chain[3] = None
\* ---- the breadth-first order, stated on the tree and not on the deque
\* the parser whose map holds n
ParentOf(t, n) ==
    CHOOSE p \in DOMAIN t.choices : \E i \in 1..Len(t.choices[p]) : t.choices[p][i].parser = n

\* the first place of n in the map of its parent
FirstIndex(t, n) ==
    CHOOSE i \in 1..Len(t.choices[ParentOf(t, n)]) :
        /\ t.choices[ParentOf(t, n)][i].parser = n
        /\ \A j \in 1..(i - 1) : t.choices[ParentOf(t, n)][j].parser # n

\* the places passed from the root down to n; its length is the depth of n
RECURSIVE Route(_, _)
Route(t, n) ==
    IF n = root THEN <<>> ELSE Append(Route(t, ParentOf(t, n)), FirstIndex(t, n))

Depth(t, n) == Len(Route(t, n))

\* the place of key in the map of p, after the route to p
KeyRoute(t, p, key) ==
    Append(Route(t, p), CHOOSE i \in 1..Len(t.choices[p]) : t.choices[p][i].name = key)

\* route a comes before route b of the same length, in insertion order
Before(a, b) ==
    \E k \in 1..Len(a) : a[k] < b[k] /\ \A j \in 1..(k - 1) : a[j] = b[j]

Holders(t, key) == {p \in DOMAIN t.choices : key \in Keys(t, p)}

FoundBreadthFirst(t, key, found) ==
    IF Holders(t, key) = {} THEN found = None
    ELSE \E p \in Holders(t, key) :
            /\ IsChild(t, p, key, found)
            /\ \A q \in Holders(t, key) \ {p} :
                  \/ Depth(t, q) > Depth(t, p)
                  \/ Depth(t, q) = Depth(t, p) /\ Before(KeyRoute(t, p, key), KeyRoute(t, q, key))

\* C10: _find_cmd searches the whole tree: it returns None exactly when no
\* parser holds the name as a key, and otherwise the holder's child that comes
\* first in breadth-first order (least depth, then insertion order).  So a
\* successful register([s, t], A) whose s is held only at depth >= 2 adds t
\* beneath that parser and leaves the root's map alone.
C10_FirstSegmentBreadthFirst ==
    [][/\ \A key \in Names : FoundBreadthFirst(Tree, key, _find_cmd(Tree, key))
       /\ (/\ op' = "register" /\ outcome' = "ok" /\ Len(arg') = 2
           /\ arg'[1] \notin Keys(Tree, root)
           /\ Holders(Tree, arg'[1]) # {})
          => LET deep == _find_cmd(Tree, arg'[1]) IN
             /\ Depth(Tree, deep) >= 2
             /\ IsChild(Tree', deep, arg'[2], node')
             /\ node' \notin DOMAIN choices
             /\ NodeCount(Tree') = NodeCount(Tree) + 1
             /\ choices'[root] = choices[root]]_vars

C10_Witness ==
    /\ op = "register" /\ outcome = "ok" /\ Len(arg) = 2
    /\ arg[1] \notin Keys(Tree, root)
    /\ Depth(Tree, node) >= 3
    /\ IsChild(Tree, ParentOf(Tree, node), arg[2], node)

\* C11: a register call that fails, with AlreadyRegistered or with
\* DuplicateName, leaves the tree exactly as it was before the call: the maps
\* of every parser, the default funcs and the sub-parsers actions are the
\* same, so no namespace node made during the walk of a failing call stays.
C11_FailedRegisterLeavesTree ==
    [][(op' = "register" /\ outcome' \in {"AlreadyRegistered", "DuplicateName"})
         => /\ choices' = choices
            /\ defaults' = defaults
            /\ subparsers' = subparsers]_vars

\* a call on a path of several segments got as far as its leaf and was
\* refused there because an alias was taken under the leaf's parent
C11_Witness ==
    /\ op = "register" /\ outcome = "DuplicateName" /\ Len(arg) >= 2
    /\ LET chain == _find_cmd_chain(Tree, arg) IN
           /\ chain[1] # None
           /\ chain[Len(arg)] = None
           /\ \E i \in 1..(Len(arg) - 1) :
                 chain[i] # None /\ chain[i + 1] = None /\ Keys(Tree, chain[i]) # {}

\* C12: the UnresolvedLeaf failure is never reached: a register call that
\* passes the AlreadyRegistered check either returns a node that was not in
\* the tree before the call, or fails with DuplicateName; it never leaves the
\* pairwise walk without having made a leaf.
C12_LeafAlwaysResolved ==
    [][(op' = "register" /\ outcome' # "AlreadyRegistered")
         => \/ /\ outcome' = "ok"
               /\ node' \in DOMAIN choices' \ DOMAIN choices
               /\ defaults'[node'] = User(arg_func')
            \/ /\ outcome' = "DuplicateName"
               /\ node' = None]_vars

\* one call on a path of three segments walked the whole chain: it made the
\* two namespace nodes and then the leaf it returned
C12_Witness ==
    /\ op = "register" /\ outcome = "ok" /\ Len(arg) = 3
    /\ NodeCount(Tree) = 3 /\ node = 3
    /\ defaults[1].kind = "print_help" /\ defaults[2].kind = "print_help"
    /\ defaults[3].kind = "user"
    /\ IsChild(Tree, root, arg[1], 1) /\ IsChild(Tree, 1, arg[2], 2)
    /\ IsChild(Tree, 2, arg[3], 3)
====
